---- MODULE Spec2Model ----
(***************************************************************************)
(* The real-time relay of src/socket.io.js: one socket.io server (io), its *)
(* connected sockets, the adapter's rooms, and the four handlers that the  *)
(* "connection" callback installs on every socket (disconnect,             *)
(* sendMessage, joinRoom, roomMessage).                                    *)
(*                                                                         *)
(* Node runs every handler to completion on one thread, so each handler is *)
(* one atomic action; concurrency is the order in which the event loop     *)
(* hands the inbound events and the close signals to the handlers.         *)
(*                                                                         *)
(* socket.io behaviour the handlers rely on:                               *)
(*   - on connect a socket gets a fresh id and joins the room named by     *)
(*     that id; io.to(x) therefore addresses a ROOM named x;               *)
(*   - socket.join(r) creates room r when absent and adds the socket;      *)
(*   - on close the socket leaves all its rooms (a room left empty is      *)
(*     deleted) and is then removed from the server's socket map;          *)
(*   - io.emit(..) reaches every connected socket, io.to(r).emit(..) every *)
(*     connected member of room r, each at most once;                      *)
(*   - an exception thrown by a handler is caught by nobody.               *)
(***************************************************************************)
EXTENDS Naturals, Integers, Sequences, FiniteSets, TLC

\* Number of connections that are ever accepted.
MaxConn == 2

\* The ids socket.io hands out, in no particular order; an id is never reused.
IdPool == <<"s1", "s2", "s3", "s4", "s5">>

Ids == {IdPool[i] : i \in 1..MaxConn}

\* A room name that is no connection's id.
PlainRooms == {"r1"}

\* Every string a client may put where a room name or a receiver id goes.
Names == Ids \cup PlainRooms

\* JavaScript's undefined (a missing receiverId).
Undefined == "undefined"

Texts == {"hi"}

\* What can close a connection: the peer, the transport, the server itself.
CloseReasons ==
    {"client namespace disconnect", "transport error",
     "server namespace disconnect"}

VARIABLES
    sockets,    \* io.sockets.sockets: ids of the connected sockets
    closed,     \* ids whose disconnect has been processed
    rooms,      \* adapter.rooms: room name -> set of member ids
    sids,       \* adapter.sids: socket id -> set of room names
    joined,     \* history: <<id, r>> such that connected id has sent joinRoom(r)
    lastEv,     \* the inbound event (or lifecycle signal) handled last
    lastOut,    \* the emit calls made while handling lastEv, in order
    pre,        \* history: sockets and rooms as they were before lastEv
    gone,       \* history: the latest disconnect, with the rooms it left
    cleanups,   \* history: per id, the cleanup steps run for it, in order
    crashed,    \* an exception escaped a handler
    users,      \* the User collection: documents in insertion order
    resp,       \* the HTTP request answered last and its response
    usersPre,   \* history: the User collection before that request
    issued,     \* how many documents have been created (and given an _id)
    inq,        \* per connection: events the client has sent, not yet handled
    sent,       \* per connection: how many events its client has sent
    inbox,      \* per connection: the outbound events written to it, in order
    outq,       \* per connection: written events its transport has not sent yet
    recv        \* per connection: the events its client has received, in order

relayVars ==
    <<sockets, closed, rooms, sids, joined, lastEv, lastOut, pre, gone,
      cleanups, crashed>>

httpVars == <<users, resp, usersPre, issued>>

fifoVars == <<inq, sent, inbox>>

wireVars == <<outq, recv>>

vars == <<relayVars, httpVars, fifoVars, wireVars>>

\* Number of events the clients send over their connections, all together.
MaxSend == 3

\* The text of a client's first, second, ... message.
SeqTexts == <<"m1", "m2", "m3", "m4", "m5">>

\* Number of documents created in the User collection, all together.
MaxUsers == 5

\* The _id of the first, second, ... document created.
OidPool == <<"o1", "o2", "o3", "o4", "o5", "o6", "o7">>

Emails == {"a@x.io", "b@x.io"}

Passwords == {"pw1", "pw2"}

----------------------------------------------------------------------------
\* Payloads

\* data of sendMessage: { message, receiverId? }
SendData ==
    [present : {TRUE}, message : Texts, target : Names \cup {Undefined},
     from : {Undefined}]

\* data of roomMessage: { message, room }
RoomData ==
    [present : {TRUE}, message : Texts, target : Names, from : {Undefined}]

\* the same payloads with one more field: a client may add any field it
\* likes, such as a `from` that names some connection
SpoofSendData ==
    [present : {TRUE}, message : Texts, target : Names \cup {Undefined},
     from : Ids \cup {Undefined}]

SpoofRoomData ==
    [present : {TRUE}, message : Texts, target : Names,
     from : Ids \cup {Undefined}]

\* the text of the join notice, `${socket.id} joined the room`
JoinedText(id) == id \o " joined the room"

Ev(name, sender, data) ==
    [name |-> name, sender |-> sender, present |-> data.present,
     message |-> data.message, target |-> data.target, from |-> data.from]

NoData ==
    [present |-> FALSE, message |-> Undefined, target |-> Undefined,
     from |-> Undefined]

Emit(event, to, message, from, room) ==
    [event |-> event, to |-> to, message |-> message, from |-> from,
     room |-> room]

----------------------------------------------------------------------------
\* The adapter

\* addAll that installs a fresh member set even when the room exists
AddAllRoomsFresh(rms, id, room) ==
    [r \in DOMAIN rms \cup {room} |-> IF r = room THEN {id} ELSE rms[r]]

\* addAll that moves the socket: it leaves every other room it was in
AddAllRoomsSwitch(rms, id, room) ==
    [r \in {x \in DOMAIN rms : rms[x] \ {id} # {}} \cup {room} |->
        IF r = room
        THEN (IF r \in DOMAIN rms THEN rms[r] ELSE {}) \cup {id}
        ELSE rms[r] \ {id}]

\* addAll that toggles: a socket already in the room is taken out of it
AddAllRoomsToggle(rms, id, room) ==
    IF room \in DOMAIN rms
    THEN [rms EXCEPT ![room] = IF id \in @ THEN @ \ {id} ELSE @ \cup {id}]
    ELSE [r \in DOMAIN rms \cup {room} |->
             IF r = room THEN {id} ELSE rms[r]]

\* adapter.addAll(id, {room})
AddAllRooms(rms, id, room) ==
    IF room \in DOMAIN rms
    THEN [rms EXCEPT ![room] = @ \cup {id}]
    ELSE [r \in DOMAIN rms \cup {room} |->
             IF r = room THEN {id} ELSE rms[r]]

AddAllSids(sd, id, room) ==
    IF id \in DOMAIN sd
    THEN [sd EXCEPT ![id] = @ \cup {room}]
    ELSE [s \in DOMAIN sd \cup {id} |-> IF s = id THEN {room} ELSE sd[s]]

\* delAll that leaves the member sets untouched
DelAllRoomsNoop(rms, id) == rms

\* delAll that keeps the rooms it has emptied
DelAllRoomsKeepEmpty(rms, id) == [r \in DOMAIN rms |-> rms[r] \ {id}]

\* adapter.delAll(id): leave every room, deleting the rooms left empty
DelAllRooms(rms, id) ==
    LET keep == {r \in DOMAIN rms : rms[r] \ {id} # {}}
    IN  [r \in keep |-> rms[r] \ {id}]

DelAllSids(sd, id) == [s \in DOMAIN sd \ {id} |-> sd[s]]

\* io.emit: adapter.broadcast with no room walks adapter.sids
AllTargets == {id \in DOMAIN sids : id \in sockets}

\* a room lookup that falls back to every socket when the room is absent
RoomTargetsFallback(rms, room) ==
    IF room \in DOMAIN rms
    THEN {id \in rms[room] : id \in sockets}
    ELSE sockets

\* io.to(room): adapter.broadcast walks the members of the room, if it exists
RoomTargets(rms, room) ==
    IF room \in DOMAIN rms
    THEN {id \in rms[room] : id \in sockets}
    ELSE {}

----------------------------------------------------------------------------
\* The user routes (express router over the User collection)

UserDoc == [email : Emails, password : Passwords]

\* the well-formed ObjectId strings a client may put in a request
Oids == {OidPool[i] : i \in 1..Len(OidPool)}

NoResp ==
    [route |-> "none", status |-> 0, email |-> Undefined,
     password |-> Undefined, failed |-> FALSE, id |-> Undefined, page |-> 0,
     method |-> Undefined, path |-> <<>>, body |-> Undefined, docs |-> <<>>]

\* User.findOne({ email }): the first document with that email, 0 for null
FindOne(us, email) ==
    IF \E i \in 1..Len(us) : us[i].email = email
    THEN CHOOSE i \in 1..Len(us) :
            /\ us[i].email = email
            /\ \A j \in 1..(i - 1) : us[j].email # email
    ELSE 0

\* a login that never compares the password
LoginStatusNoPasswordCheck(us, email, password, failed) ==
    IF failed THEN 500
    ELSE IF FindOne(us, email) = 0 THEN 404
    ELSE 200

\* the status POST /login answers with; failed: the lookup threw
LoginStatus(us, email, password, failed) ==
    IF failed THEN 500
    ELSE IF FindOne(us, email) = 0 THEN 404
    ELSE IF us[FindOne(us, email)].password # password THEN 400
    ELSE 200

\* router.post("/signup"): User.create(req.body); a rejected document (schema
\* validation, index, connection) is answered 400 and stores nothing
Signup(doc, failed) ==
    /\ issued < MaxUsers
    /\ usersPre' = users
    /\ users' = IF failed THEN users
                ELSE Append(users, [id |-> OidPool[issued + 1],
                                    email |-> doc.email,
                                    password |-> doc.password])
    /\ issued' = IF failed THEN issued ELSE issued + 1
    /\ resp' = [NoResp EXCEPT !.route = "signup",
                              !.status = IF failed THEN 400 ELSE 201,
                              !.email = doc.email, !.password = doc.password,
                              !.failed = failed,
                              !.body = IF failed THEN "failure" ELSE "success"]
    /\ UNCHANGED <<relayVars, fifoVars, wireVars>>

\* router.post("/login")
Login(email, password, failed) ==
    /\ usersPre' = users
    /\ users' = users
    /\ issued' = issued
    /\ resp' = [NoResp EXCEPT !.route = "login",
                              !.status =
                                 LoginStatus(users, email, password, failed),
                              !.email = email, !.password = password,
                              !.failed = failed]
    /\ UNCHANGED <<relayVars, fifoVars, wireVars>>

\* User.deleteOne({ _id: id }): the collection without the document that has
\* this _id (an _id is unique)
DeleteOne(us, id) == SelectSeq(us, LAMBDA u : u.id # id)

DeletedCount(us, id) == Len(us) - Len(DeleteOne(us, id))

\* router.delete("/delete/:id") of part_003: a string that is no ObjectId
\* makes deleteOne throw (cast error), as does a lost connection (failed);
\* deletedCount === 0 is answered 404
Delete(id, failed) ==
    /\ usersPre' = users
    /\ issued' = issued
    /\ IF failed \/ id \notin Oids
       THEN /\ users' = users
            /\ resp' = [NoResp EXCEPT !.route = "delete", !.status = 400,
                                      !.id = id, !.failed = failed,
                                      !.body = "failure"]
       ELSE IF DeletedCount(users, id) = 0
       THEN /\ users' = users
            /\ resp' = [NoResp EXCEPT !.route = "delete", !.status = 404,
                                      !.id = id, !.body = "failure"]
       ELSE /\ users' = DeleteOne(users, id)
            /\ resp' = [NoResp EXCEPT !.route = "delete", !.status = 200,
                                      !.id = id, !.body = "success"]
    /\ UNCHANGED <<relayVars, fifoVars, wireVars>>

\* router.delete("/delete/:id") of view/user.viewGPT.js: the result of
\* deleteOne is not looked at
DeleteViewGPT(id, failed) ==
    /\ usersPre' = users
    /\ issued' = issued
    /\ IF failed \/ id \notin Oids
       THEN /\ users' = users
            /\ resp' = [NoResp EXCEPT !.route = "delete", !.status = 400,
                                      !.id = id, !.failed = failed,
                                      !.body = "failure"]
       ELSE /\ users' = DeleteOne(users, id)
            /\ resp' = [NoResp EXCEPT !.route = "delete", !.status = 200,
                                      !.id = id, !.body = "success"]
    /\ UNCHANGED <<relayVars, fifoVars, wireVars>>

\* const limit = 2
limit == 2

\* a skip that takes the page number for the number of pages to pass over
SkipOfPageNumber(page) == page * limit

\* const skip = (page - 1) * limit
SkipOf(page) == (page - 1) * limit

\* User.aggregate([{ $skip: skip }, { $limit: lim }]) over the collection in
\* its stored order; $skip takes no negative number
Aggregate(us, skip, lim) ==
    LET last == IF skip + lim < Len(us) THEN skip + lim ELSE Len(us)
    IN  SubSeq(us, skip + 1, last)

\* the page numbers a client asks for: Number(req.params.page)
Pages == -1..(MaxUsers \div limit + 2)

\* router.get("/pagination/:page"): the catch sends err.message, status 200
Pagination(page, failed) ==
    /\ usersPre' = users
    /\ users' = users
    /\ issued' = issued
    /\ IF failed \/ SkipOf(page) < 0
       THEN resp' = [NoResp EXCEPT !.route = "pagination", !.status = 200,
                                  !.page = page, !.failed = failed,
                                  !.body = "err.message"]
       ELSE resp' = [NoResp EXCEPT !.route = "pagination", !.status = 200,
                                  !.page = page, !.body = "users",
                                  !.docs = Aggregate(users, SkipOf(page),
                                                     limit)]
    /\ UNCHANGED <<relayVars, fifoVars, wireVars>>

----------------------------------------------------------------------------
\* The security application (express app of part_003): a request passes the
\* middlewares mounted on a prefix of its path, in the order of the app.use
\* calls, and then the route that matches it.

\* app.use(...) in program order; a path is the sequence of its segments
Chain ==
    <<[mount |-> <<>>, name |-> "express.json"],
      [mount |-> <<>>, name |-> "cookieParser"],
      [mount |-> <<>>, name |-> "cors"],
      [mount |-> <<>>, name |-> "helmet"],
      [mount |-> <<>>, name |-> "xssClean"],
      [mount |-> <<"auth">>, name |-> "limiter"],
      [mount |-> <<"protected">>, name |-> "csrfMiddleware"]>>

Paths ==
    {<<>>, <<"csrf-token">>, <<"protected">>, <<"protected", "csrf-token">>,
     <<"signup">>, <<"other">>}

Methods == {"GET", "POST"}

\* app.use(mount, ..) matches the paths that begin with the mount path
Mounted(mount, path) ==
    /\ Len(mount) <= Len(path)
    /\ SubSeq(path, 1, Len(mount)) = mount

\* the middlewares a request for this path passes before its route
Ran(path) ==
    {Chain[i].name : i \in {j \in 1..Len(Chain) : Mounted(Chain[j].mount, path)}}

\* One request to the security application. valid: the request carries what
\* the checks on its path ask for (the csrf token under /protected, a
\* well-formed body for /signup). csurf lets GET pass and answers 403 to a
\* POST without a valid token; it is csurf that defines req.csrfToken, so
\* the /csrf-token handler, reached without csurf, calls undefined and the
\* TypeError is answered by express with 500.
AppRequest(method, path, valid) ==
    /\ usersPre' = users
    /\ users' = users
    /\ issued' = issued
    /\ resp' =
          LET r == [NoResp EXCEPT !.method = method, !.path = path,
                                  !.failed = ~valid]
          IN  IF "csrfMiddleware" \in Ran(path) /\ method = "POST" /\ ~valid
              THEN [r EXCEPT !.route = "csrfMiddleware", !.status = 403,
                             !.body = "invalid csrf token"]
              ELSE IF method = "GET" /\ path = <<"csrf-token">>
              THEN IF "csrfMiddleware" \in Ran(path)
                   THEN [r EXCEPT !.route = "csrf-token", !.status = 200,
                                  !.body = "csrfToken"]
                   ELSE [r EXCEPT !.route = "csrf-token", !.status = 500,
                                  !.body = "TypeError"]
              ELSE IF method = "POST" /\ path = <<"signup">>
              THEN [r EXCEPT !.route = "validated signup",
                             !.status = IF valid THEN 200 ELSE 400,
                             !.body = IF valid THEN "success" ELSE "failure"]
              ELSE IF method = "GET" /\ path = <<>>
              THEN [r EXCEPT !.route = "root", !.status = 200,
                             !.body = "Security setup is active!"]
              ELSE [r EXCEPT !.route = "no route", !.status = 404]
    /\ UNCHANGED <<relayVars, fifoVars, wireVars>>

\* the documents the store is filled with for the delete and pagination
\* routes, which look at no field but _id
StoreDocs == [email : Emails, password : {"pw1"}]

NextHttp ==
    \/ \E doc \in StoreDocs : \E failed \in BOOLEAN : Signup(doc, failed)
    \/ \E id \in Oids \cup {"not-an-id"} : \E failed \in BOOLEAN :
          Delete(id, failed)
    \/ \E id \in Oids \cup {"not-an-id"} : \E failed \in BOOLEAN :
          DeleteViewGPT(id, failed)
    \/ \E page \in Pages : \E failed \in BOOLEAN : Pagination(page, failed)
    \/ \E method \in Methods : \E path \in Paths : \E valid \in BOOLEAN :
          AppRequest(method, path, valid)

NextUsers ==
    \/ \E doc \in UserDoc : \E failed \in BOOLEAN : Signup(doc, failed)
    \/ \E email \in Emails : \E password \in Passwords \cup {Undefined} :
          \E failed \in BOOLEAN : Login(email, password, failed)

----------------------------------------------------------------------------
\* The names a client can put in a payload: plain room names and the ids
\* that have been handed out (ids are random, so a future id is unknown).
KnownNames == sockets \cup closed \cup PlainRooms

Snapshot == [sockets |-> sockets, rooms |-> rooms]

Init ==
    /\ sockets = {}
    /\ closed = {}
    /\ rooms = <<>>
    /\ sids = <<>>
    /\ joined = {}
    /\ lastEv = Ev("none", Undefined, NoData)
    /\ lastOut = <<>>
    /\ pre = [sockets |-> {}, rooms |-> <<>>]
    /\ gone = [id |-> Undefined, left |-> {}]
    /\ cleanups = [c \in Ids |-> <<>>]
    /\ crashed = FALSE
    /\ users = <<>>
    /\ resp = NoResp
    /\ usersPre = <<>>
    /\ issued = 0
    /\ inq = [c \in Ids |-> <<>>]
    /\ sent = [c \in Ids |-> 0]
    /\ inbox = [c \in Ids |-> <<>>]
    /\ outq = [c \in Ids |-> <<>>]
    /\ recv = [c \in Ids |-> <<>>]

\* io.on("connection"): a new socket with a fresh id, already in its own room
Connect(c) ==
    /\ ~crashed
    /\ c \notin sockets \cup closed
    /\ sockets' = sockets \cup {c}
    /\ rooms' = AddAllRooms(rooms, c, c)
    /\ sids' = AddAllSids(sids, c, c)
    /\ lastEv' = Ev("connection", c, NoData)
    /\ lastOut' = <<>>
    /\ pre' = Snapshot
    /\ UNCHANGED <<httpVars, fifoVars, wireVars>>
    /\ UNCHANGED <<closed, joined, gone, cleanups, crashed>>

\* a close that is only logged: no leaveAll, no removal from the socket map
DisconnectNoCleanup(c) ==
    /\ ~crashed
    /\ c \in sockets
    /\ c \notin closed
    /\ closed' = closed \cup {c}
    /\ lastEv' = Ev("disconnect", c, NoData)
    /\ lastOut' = <<>>
    /\ pre' = Snapshot
    /\ UNCHANGED <<httpVars, fifoVars, wireVars>>
    /\ gone' = [id |-> c, left |-> sids[c]]
    /\ UNCHANGED <<sockets, rooms, sids, joined, cleanups, crashed>>

\* a close that leaves the rooms but keeps the socket in the socket map
DisconnectKeepsSocket(c) ==
    /\ ~crashed
    /\ c \in sockets
    /\ c \notin closed
    /\ rooms' = DelAllRooms(rooms, c)
    /\ sids' = [sids EXCEPT ![c] = {}]
    /\ closed' = closed \cup {c}
    /\ joined' = {p \in joined : p[1] # c}
    /\ lastEv' = Ev("disconnect", c, NoData)
    /\ lastOut' = <<>>
    /\ pre' = Snapshot
    /\ UNCHANGED <<httpVars, fifoVars, wireVars>>
    /\ gone' = [id |-> c, left |-> sids[c]]
    /\ cleanups' = [cleanups EXCEPT ![c] = @ \o <<"leaveAll">>]
    /\ UNCHANGED <<sockets, crashed>>

\* the signal of a close, whatever its cause
CloseSignal(name, c, reason) ==
    Ev(name, c, [present |-> FALSE, message |-> reason, target |-> Undefined,
                 from |-> Undefined])

\* socket.on("disconnect"): leaveAll, then removal from the socket map, then
\* the handler, which only logs; the cause of the close makes no difference.
\* The engine drops the write buffer of a connection that closes.
Disconnect(c) ==
    /\ ~crashed
    /\ c \in sockets
    /\ rooms' = DelAllRooms(rooms, c)
    /\ sids' = DelAllSids(sids, c)
    /\ sockets' = sockets \ {c}
    /\ closed' = closed \cup {c}
    /\ joined' = {p \in joined : p[1] # c}
    /\ \E reason \in CloseReasons : lastEv' = CloseSignal("disconnect", c, reason)
    /\ lastOut' = <<>>
    /\ pre' = Snapshot
    /\ outq' = [outq EXCEPT ![c] = <<>>]
    /\ UNCHANGED <<httpVars, fifoVars, recv>>
    /\ gone' = [id |-> c, left |-> sids[c]]
    /\ cleanups' = [cleanups EXCEPT ![c] = @ \o <<"leaveAll", "remove">>]
    /\ UNCHANGED crashed

\* a second close signal that runs the cleanup again
CloseAgainCleans(c) ==
    /\ ~crashed
    /\ c \in closed
    /\ \E reason \in CloseReasons : lastEv' = CloseSignal("close", c, reason)
    /\ lastOut' = <<>>
    /\ pre' = Snapshot
    /\ UNCHANGED <<httpVars, fifoVars, wireVars>>
    /\ rooms' = DelAllRooms(rooms, c)
    /\ cleanups' = [cleanups EXCEPT ![c] = @ \o <<"leaveAll", "remove">>]
    /\ UNCHANGED <<sockets, closed, sids, joined, gone, crashed>>

\* a further close signal for a socket that is already closed: the socket is
\* no longer connected, so neither the cleanup nor the handler runs
CloseAgain(c) ==
    /\ ~crashed
    /\ c \in closed
    /\ \E reason \in CloseReasons : lastEv' = CloseSignal("close", c, reason)
    /\ lastOut' = <<>>
    /\ pre' = Snapshot
    /\ UNCHANGED <<httpVars, fifoVars, wireVars>>
    /\ UNCHANGED <<sockets, closed, rooms, sids, joined, gone, cleanups,
                   crashed>>

\* an inbound event whose name has no handler: nothing listens, nothing runs
OtherEvent(c) ==
    /\ ~crashed
    /\ c \in sockets
    /\ lastEv' = Ev("unknownEvent", c, NoData)
    /\ lastOut' = <<>>
    /\ pre' = Snapshot
    /\ UNCHANGED <<httpVars, fifoVars, wireVars>>
    /\ UNCHANGED <<sockets, closed, rooms, sids, joined, gone, cleanups,
                   crashed>>

\* the private leg sent with socket.to(..), which leaves the sender out
PrivateLegSocketTo(c, data) ==
    IF data.target # Undefined
    THEN <<Emit("privateMessage", RoomTargets(rooms, data.target) \ {c},
                data.message, c, Undefined)>>
    ELSE <<>>

\* the private leg of sendMessage: io.to(data.receiverId).emit
PrivateLeg(c, data) ==
    IF data.target # Undefined
    THEN <<Emit("privateMessage", RoomTargets(rooms, data.target),
                data.message, c, Undefined)>>
    ELSE <<>>

\* the broadcast sent with socket.broadcast.emit, which leaves the sender out
SendMessageOutOthers(c, data) ==
    <<Emit("selfMessage", {c}, data.message, "You", Undefined),
      Emit("broadcastMessage", AllTargets \ {c}, data.message, c, Undefined)>>
    \o PrivateLeg(c, data)

\* the handler with the private leg moved to the front
SendMessageOutPrivateFirst(c, data) ==
    PrivateLeg(c, data)
    \o <<Emit("selfMessage", {c}, data.message, "You", Undefined),
         Emit("broadcastMessage", AllTargets, data.message, c, Undefined)>>

\* the emit calls of the sendMessage handler, in program order
SendMessageOut(c, data) ==
    <<Emit("selfMessage", {c}, data.message, "You", Undefined),
      Emit("broadcastMessage", AllTargets, data.message, c, Undefined)>>
    \o PrivateLeg(c, data)

\* socket.on("sendMessage"); reading data.message of a missing payload throws
SendMessage(c, data) ==
    /\ ~crashed
    /\ c \in sockets
    /\ data.target \in KnownNames \cup {Undefined}
    /\ data.from \in KnownNames \cup {Undefined}
    /\ lastEv' = Ev("sendMessage", c, data)
    /\ pre' = Snapshot
    /\ UNCHANGED <<httpVars, fifoVars, wireVars>>
    /\ IF data.present
       THEN /\ lastOut' = SendMessageOut(c, data)
            /\ UNCHANGED crashed
       ELSE /\ lastOut' = <<>>
            /\ crashed' = TRUE
    /\ UNCHANGED <<sockets, closed, rooms, sids, joined, gone, cleanups>>

\* the notice sent with socket.to(..), which leaves the joiner out
JoinRoomOutOthers(c, roomName, rms) ==
    <<Emit("roomNotification", RoomTargets(rms, roomName) \ {c},
           JoinedText(c), Undefined, roomName)>>

\* the emit call of the joinRoom handler; rms is the room map after the join
JoinRoomOut(c, roomName, rms) ==
    <<Emit("roomNotification", RoomTargets(rms, roomName), JoinedText(c),
           Undefined, roomName)>>

\* socket.on("joinRoom")
JoinRoom(c, roomName) ==
    /\ ~crashed
    /\ c \in sockets
    /\ roomName \in KnownNames
    /\ rooms' = AddAllRooms(rooms, c, roomName)
    /\ sids' = AddAllSids(sids, c, roomName)
    /\ joined' = joined \cup {<<c, roomName>>}
    /\ lastEv' = Ev("joinRoom", c,
                    [present |-> TRUE, message |-> Undefined,
                     target |-> roomName, from |-> Undefined])
    /\ lastOut' = JoinRoomOut(c, roomName, rooms')
    /\ pre' = Snapshot
    /\ UNCHANGED <<httpVars, fifoVars, wireVars>>
    /\ UNCHANGED <<sockets, closed, gone, cleanups, crashed>>

\* the forward sent with socket.to(..), which leaves the sender out
RoomMessageOutOthers(c, data) ==
    <<Emit("roomMessageForward", RoomTargets(rooms, data.target) \ {c},
           data.message, c, data.target)>>

\* the forward attributed to the payload's `from` when the payload has one
RoomMessageOutTrustsPayload(c, data) ==
    <<Emit("roomMessageForward", RoomTargets(rooms, data.target),
           data.message, IF data.from # Undefined THEN data.from ELSE c,
           data.target)>>

\* the forward made only when the sender is itself a member of the room
RoomMessageOutMembersOnly(c, data) ==
    IF data.target \in DOMAIN rooms /\ c \in rooms[data.target]
    THEN <<Emit("roomMessageForward", RoomTargets(rooms, data.target),
                data.message, c, data.target)>>
    ELSE <<>>

\* the emit call of the roomMessage handler
RoomMessageOut(c, data) ==
    <<Emit("roomMessageForward", RoomTargets(rooms, data.target),
           data.message, c, data.target)>>

\* socket.on("roomMessage"); reading data.room of a missing payload throws
RoomMessage(c, data) ==
    /\ ~crashed
    /\ c \in sockets
    /\ data.target \in KnownNames \cup {Undefined}
    /\ data.from \in KnownNames \cup {Undefined}
    /\ lastEv' = Ev("roomMessage", c, data)
    /\ pre' = Snapshot
    /\ UNCHANGED <<httpVars, fifoVars, wireVars>>
    /\ IF data.present
       THEN /\ lastOut' = RoomMessageOut(c, data)
            /\ UNCHANGED crashed
       ELSE /\ lastOut' = <<>>
            /\ crashed' = TRUE
    /\ UNCHANGED <<sockets, closed, rooms, sids, joined, gone, cleanups>>

Next ==
    \/ \E c \in Ids : Connect(c)
    \/ \E c \in Ids : Disconnect(c)
    \/ \E c \in Ids : CloseAgain(c)
    \/ \E c \in Ids : OtherEvent(c)
    \/ \E c \in Ids : \E data \in SendData \cup {NoData} : SendMessage(c, data)
    \/ \E c \in Ids : \E roomName \in Names : JoinRoom(c, roomName)
    \/ \E c \in Ids : \E data \in RoomData \cup {NoData} : RoomMessage(c, data)

Spec == Init /\ [][Next]_vars

\* The relay fed with payloads that carry a `from` field. Rooms are joined
\* by plain names only, which keeps the state space small; receivers and
\* room targets still range over the ids.
NextAttrib ==
    \/ \E c \in Ids : Connect(c)
    \/ \E c \in Ids : Disconnect(c)
    \/ \E c \in Ids : \E data \in SpoofSendData : SendMessage(c, data)
    \/ \E c \in Ids : \E roomName \in PlainRooms : JoinRoom(c, roomName)
    \/ \E c \in Ids : \E data \in SpoofRoomData : RoomMessage(c, data)

SpecAttrib == Init /\ [][NextAttrib]_vars

SpecUsers == Init /\ [][NextUsers]_vars

\* the delete and pagination routes and the security application
SpecHttp == Init /\ [][NextHttp]_vars

----------------------------------------------------------------------------
\* The relay behind its transport: a client's events travel in order over its
\* connection and wait in inq until the event loop hands the first of them
\* to the handler; what the handler emits is written to each target's
\* connection in the order of the emit calls.

\* what the emit calls `out` write to connection t
Written(t, out) ==
    LET W[k \in 0..Len(out)] ==
            IF k = 0 THEN <<>>
            ELSE IF t \in out[k].to
                 THEN Append(W[k - 1],
                             [event |-> out[k].event, from |-> out[k].from,
                              message |-> out[k].message])
                 ELSE W[k - 1]
    IN  W[Len(out)]

\* the number of events sent so far by the clients in S
RECURSIVE TotalSent(_)
TotalSent(S) ==
    IF S = {} THEN 0
    ELSE LET c == CHOOSE x \in S : TRUE
         IN  sent[c] + TotalSent(S \ {c})

\* the client of c emits its next sendMessage (a broadcast, no receiverId)
ClientSend(c) ==
    /\ ~crashed
    /\ c \in sockets
    /\ TotalSent(Ids) < MaxSend
    /\ sent' = [sent EXCEPT ![c] = @ + 1]
    /\ inq' = [inq EXCEPT ![c] =
                 Append(@, [present |-> TRUE, message |-> SeqTexts[sent[c] + 1],
                            target |-> Undefined, from |-> Undefined])]
    /\ UNCHANGED <<relayVars, httpVars, inbox, wireVars>>

\* the handler run on the event at position k of c's queue
HandleAt(c, k) ==
    /\ ~crashed
    /\ c \in sockets
    /\ k \in 1..Len(inq[c])
    /\ lastEv' = Ev("sendMessage", c, inq[c][k])
    /\ lastOut' = SendMessageOut(c, inq[c][k])
    /\ pre' = Snapshot
    /\ inbox' = [t \in Ids |->
                   inbox[t] \o Written(t, SendMessageOut(c, inq[c][k]))]
    /\ inq' = [inq EXCEPT ![c] =
                 [i \in 1..(Len(@) - 1) |-> IF i < k THEN @[i] ELSE @[i + 1]]]
    /\ UNCHANGED <<sockets, closed, rooms, sids, joined, gone, cleanups,
                   crashed, httpVars, sent, wireVars>>

\* a dispatch that takes the newest waiting event first
DeliverNewestFirst(c) == HandleAt(c, Len(inq[c]))

\* socket.on("sendMessage") for the events of one connection: the oldest
\* waiting event is handled first
Deliver(c) == HandleAt(c, 1)

NextFifo ==
    \/ \E c \in Ids : Connect(c)
    \/ \E c \in Ids : Disconnect(c)
    \/ \E c \in Ids : ClientSend(c)
    \/ \E c \in Ids : Deliver(c)

SpecFifo == Init /\ [][NextFifo]_vars

----------------------------------------------------------------------------
\* The relay in front of its transport: an emit call writes the event to the
\* write buffer of every target's connection and returns; each connection's
\* transport sends its buffer on its own, oldest event first, and a write
\* that fails closes that one connection with "transport error".

\* the text of the next event: every dispatched event carries its own
NextText == SeqTexts[TotalSent(Ids) + 1]

WireData(target) ==
    [present |-> TRUE, message |-> NextText, target |-> target,
     from |-> Undefined]

\* the emit calls `out` of one handler run, written to the targets' buffers
WireWrite(out) ==
    /\ lastOut' = out
    /\ outq' = [t \in Ids |-> outq[t] \o Written(t, out)]
    /\ inbox' = [t \in Ids |-> inbox[t] \o Written(t, out)]

\* socket.on("sendMessage"), its emits going to the write buffers
WireSendMessage(c, present) ==
    LET data == IF present THEN WireData(Undefined) ELSE NoData
    IN
    /\ ~crashed
    /\ c \in sockets
    /\ TotalSent(Ids) < MaxSend
    /\ sent' = [sent EXCEPT ![c] = @ + 1]
    /\ lastEv' = Ev("sendMessage", c, data)
    /\ pre' = Snapshot
    /\ IF data.present
       THEN /\ WireWrite(SendMessageOut(c, data))
            /\ UNCHANGED crashed
       ELSE /\ WireWrite(<<>>)
            /\ crashed' = TRUE
    /\ UNCHANGED <<sockets, closed, rooms, sids, joined, gone, cleanups,
                   httpVars, inq, recv>>

\* socket.on("joinRoom"), its notice going to the write buffers
WireJoinRoom(c, roomName) ==
    /\ ~crashed
    /\ c \in sockets
    /\ TotalSent(Ids) < MaxSend
    /\ sent' = [sent EXCEPT ![c] = @ + 1]
    /\ rooms' = AddAllRooms(rooms, c, roomName)
    /\ sids' = AddAllSids(sids, c, roomName)
    /\ joined' = joined \cup {<<c, roomName>>}
    /\ lastEv' = Ev("joinRoom", c,
                    [present |-> TRUE, message |-> Undefined,
                     target |-> roomName, from |-> Undefined])
    /\ pre' = Snapshot
    /\ WireWrite(JoinRoomOut(c, roomName, rooms'))
    /\ UNCHANGED <<sockets, closed, gone, cleanups, crashed, httpVars, inq,
                   recv>>

\* socket.on("roomMessage"), its forward going to the write buffers
WireRoomMessage(c, roomName, present) ==
    LET data == IF present THEN WireData(roomName) ELSE NoData
    IN
    /\ ~crashed
    /\ c \in sockets
    /\ TotalSent(Ids) < MaxSend
    /\ sent' = [sent EXCEPT ![c] = @ + 1]
    /\ lastEv' = Ev("roomMessage", c, data)
    /\ pre' = Snapshot
    /\ IF data.present
       THEN /\ WireWrite(RoomMessageOut(c, data))
            /\ UNCHANGED crashed
       ELSE /\ WireWrite(<<>>)
            /\ crashed' = TRUE
    /\ UNCHANGED <<sockets, closed, rooms, sids, joined, gone, cleanups,
                   httpVars, inq, recv>>

\* a transport that takes the oldest event off the buffer and loses it
FlushLoses(c) ==
    /\ ~crashed
    /\ c \in sockets
    /\ outq[c] # <<>>
    /\ outq' = [outq EXCEPT ![c] = Tail(@)]
    /\ UNCHANGED <<relayVars, httpVars, fifoVars, recv>>

\* the transport of c sends the oldest event of its write buffer, and the
\* client of c receives it
Flush(c) ==
    /\ ~crashed
    /\ c \in sockets
    /\ outq[c] # <<>>
    /\ recv' = [recv EXCEPT ![c] = Append(@, Head(outq[c]))]
    /\ outq' = [outq EXCEPT ![c] = Tail(@)]
    /\ UNCHANGED <<relayVars, httpVars, fifoVars>>

\* a failed write that takes the whole fan-out down with it: the events
\* still waiting for the other targets are dropped as well
WriteFailAbortsFanOut(c) ==
    /\ ~crashed
    /\ c \in sockets
    /\ outq[c] # <<>>
    /\ rooms' = DelAllRooms(rooms, c)
    /\ sids' = DelAllSids(sids, c)
    /\ sockets' = sockets \ {c}
    /\ closed' = closed \cup {c}
    /\ joined' = {p \in joined : p[1] # c}
    /\ lastEv' = CloseSignal("disconnect", c, "transport error")
    /\ lastOut' = <<>>
    /\ pre' = Snapshot
    /\ gone' = [id |-> c, left |-> sids[c]]
    /\ cleanups' = [cleanups EXCEPT ![c] = @ \o <<"leaveAll", "remove">>]
    /\ outq' = [t \in Ids |-> <<>>]
    /\ UNCHANGED <<crashed, httpVars, fifoVars, recv>>

\* the write of a waiting event to c fails: the transport reports the error
\* to the engine of c alone, which closes c with "transport error" and so
\* runs the close path of c; nothing is thrown into the emit call, which
\* returned when it had filled the buffers
WriteFail(c) ==
    /\ ~crashed
    /\ c \in sockets
    /\ outq[c] # <<>>
    /\ rooms' = DelAllRooms(rooms, c)
    /\ sids' = DelAllSids(sids, c)
    /\ sockets' = sockets \ {c}
    /\ closed' = closed \cup {c}
    /\ joined' = {p \in joined : p[1] # c}
    /\ lastEv' = CloseSignal("disconnect", c, "transport error")
    /\ lastOut' = <<>>
    /\ pre' = Snapshot
    /\ gone' = [id |-> c, left |-> sids[c]]
    /\ cleanups' = [cleanups EXCEPT ![c] = @ \o <<"leaveAll", "remove">>]
    /\ outq' = [outq EXCEPT ![c] = <<>>]
    /\ UNCHANGED <<crashed, httpVars, fifoVars, recv>>

NextWire ==
    \/ \E c \in Ids : Connect(c)
    \/ \E c \in Ids : WriteFail(c)
    \/ \E c \in Ids : Disconnect(c)
    \/ \E c \in Ids : \E present \in BOOLEAN : WireSendMessage(c, present)
    \/ \E c \in Ids : \E roomName \in PlainRooms : WireJoinRoom(c, roomName)
    \/ \E c \in Ids : \E roomName \in PlainRooms : \E present \in BOOLEAN :
          WireRoomMessage(c, roomName, present)
    \/ \E c \in Ids : Flush(c)

\* The event loop runs a transport whose buffer is not empty: a connection
\* that stays open gets its waiting events sent.
SpecWire ==
    Init /\ [][NextWire]_vars /\ \A c \in Ids : WF_vars(Flush(c))

----------------------------------------------------------------------------
\* Observations used by the properties

OutEvents ==
    {"selfMessage", "broadcastMessage", "privateMessage", "roomNotification",
     "roomMessageForward"}

\* how many times the handling of lastEv delivered `event` to connection c
Count(c, event) ==
    Cardinality({i \in 1..Len(lastOut) :
                    lastOut[i].event = event /\ c \in lastOut[i].to})

\* the members of room r in room map rms; a room that does not exist has none
Members(rms, r) == IF r \in DOMAIN rms THEN rms[r] ELSE {}

\* lastEv is a well-formed inbound event of the given name
Handled(name) == lastEv.name = name /\ lastEv.present

\* the self-echo and the broadcast of the sendMessage handled last
EchoAndBroadcast ==
    /\ \A c \in Ids :
          Count(c, "selfMessage") = (IF c = lastEv.sender THEN 1 ELSE 0)
    /\ \A c \in Ids :
          Count(c, "broadcastMessage") = (IF c \in pre.sockets THEN 1 ELSE 0)
    /\ \A i \in 1..Len(lastOut) :
          /\ lastOut[i].message = lastEv.message
          /\ lastOut[i].event = "broadcastMessage"
                => lastOut[i].from = lastEv.sender

----------------------------------------------------------------------------
\* C1: a sendMessage from a registered connection A that carries no
\* receiverId yields exactly one selfMessage to A, exactly one
\* broadcastMessage to each connection registered at that moment (A
\* included), and no other outbound event.
C1_NoReceiverEchoAndBroadcast ==
    (Handled("sendMessage") /\ lastEv.target = Undefined) =>
        /\ lastEv.sender \in pre.sockets
        /\ sockets = pre.sockets
        /\ EchoAndBroadcast
        /\ \A i \in 1..Len(lastOut) :
              lastOut[i].event \in {"selfMessage", "broadcastMessage"}
        /\ \A c \in Ids :
              \A e \in OutEvents \ {"selfMessage", "broadcastMessage"} :
                 Count(c, e) = 0

C1_Witness ==
    /\ Handled("sendMessage")
    /\ lastEv.target = Undefined
    /\ Cardinality(pre.sockets) >= 2
    /\ \A c \in pre.sockets : Count(c, "broadcastMessage") = 1

\* C2: a sendMessage from A whose receiverId is the id of a registered
\* connection B yields the self-echo to A, the broadcast to every registered
\* connection, and exactly one privateMessage delivered to B, also when B = A.
C2_RegisteredReceiverGetsPrivate ==
    (Handled("sendMessage") /\ lastEv.target \in pre.sockets) =>
        /\ EchoAndBroadcast
        /\ Count(lastEv.target, "privateMessage") = 1
        /\ \A i \in 1..Len(lastOut) :
              lastOut[i].event = "privateMessage"
                 => /\ lastOut[i].from = lastEv.sender
                    /\ lastOut[i].message = lastEv.message

C2_Witness ==
    /\ Handled("sendMessage")
    /\ lastEv.target \in pre.sockets
    /\ lastEv.target # lastEv.sender
    /\ Count(lastEv.target, "privateMessage") = 1

\* C3: a sendMessage from A whose receiverId names no registered connection
\* delivers no privateMessage to anyone and no error event, still delivers
\* the self-echo and the broadcast, and leaves registry and rooms unchanged.
C3_UnknownReceiverNoPrivate ==
    (/\ Handled("sendMessage")
     /\ lastEv.target # Undefined
     /\ lastEv.target \notin pre.sockets) =>
        /\ \A c \in Ids : Count(c, "privateMessage") = 0
        /\ \A i \in 1..Len(lastOut) : lastOut[i].event \in OutEvents
        /\ ~crashed
        /\ EchoAndBroadcast
        /\ sockets = pre.sockets
        /\ rooms = pre.rooms

\* C4: a privateMessage caused by sendMessage with receiverId = X is
\* delivered to at most the one connection whose id is X, and to no other
\* connection (not to one that sent joinRoom(X), not to the members of a
\* room named X).
C4_PrivateReachesOnlyAddressee ==
    \A i \in 1..Len(lastOut) :
       lastOut[i].event = "privateMessage"
          => lastOut[i].to \subseteq {lastEv.target}

\* C5: joinRoom(r) from A first adds A to r and then delivers exactly one
\* roomNotification, text "<id of A> joined the room" and room r, to every
\* member of r after the join, A and the earlier members included.
C5_JoinThenNotifyMembers ==
    Handled("joinRoom") =>
        /\ lastEv.sender \in Members(rooms, lastEv.target)
        /\ Members(pre.rooms, lastEv.target) \subseteq
              Members(rooms, lastEv.target)
        /\ Len(lastOut) = 1
        /\ lastOut[1] =
              Emit("roomNotification", Members(rooms, lastEv.target),
                   JoinedText(lastEv.sender), Undefined, lastEv.target)
        /\ \A c \in Ids :
              Count(c, "roomNotification") =
                 (IF c \in Members(rooms, lastEv.target) THEN 1 ELSE 0)

C5_Witness ==
    /\ Handled("joinRoom")
    /\ lastEv.sender \notin Members(pre.rooms, lastEv.target)
    /\ Members(pre.rooms, lastEv.target) # {}
    /\ \A c \in Members(pre.rooms, lastEv.target) \cup {lastEv.sender} :
          Count(c, "roomNotification") = 1

\* C6: roomMessage(r, text) from a member B of r delivers exactly one
\* roomMessageForward(r, text, from = id of B) to every member of r at
\* dispatch time, B included.
C6_MemberForwardReachesRoom ==
    (/\ Handled("roomMessage")
     /\ lastEv.sender \in Members(pre.rooms, lastEv.target)) =>
        /\ Len(lastOut) = 1
        /\ lastOut[1] =
              Emit("roomMessageForward", Members(pre.rooms, lastEv.target),
                   lastEv.message, lastEv.sender, lastEv.target)
        /\ \A c \in Ids :
              Count(c, "roomMessageForward") =
                 (IF c \in Members(pre.rooms, lastEv.target) THEN 1 ELSE 0)

C6_Witness ==
    /\ Handled("roomMessage")
    /\ lastEv.target \in PlainRooms
    /\ lastEv.sender \in Members(pre.rooms, lastEv.target)
    /\ Cardinality(Members(pre.rooms, lastEv.target)) >= 2
    /\ \A c \in Members(pre.rooms, lastEv.target) :
          Count(c, "roomMessageForward") = 1

\* C7: roomMessage for a room name without members (never joined, or emptied
\* because all its members disconnected) yields zero deliveries and no
\* error, and neither creates the room nor changes any membership.
C7_EmptyRoomMessageIsNoop ==
    (/\ Handled("roomMessage")
     /\ Members(pre.rooms, lastEv.target) = {}) =>
        /\ \A c \in Ids : \A e \in OutEvents : Count(c, e) = 0
        /\ \A i \in 1..Len(lastOut) : lastOut[i].event \in OutEvents
        /\ ~crashed
        /\ lastEv.target \notin DOMAIN rooms
        /\ rooms = pre.rooms
        /\ sockets = pre.sockets

C7_Witness ==
    /\ Handled("roomMessage")
    /\ Members(pre.rooms, lastEv.target) = {}
    /\ lastEv.target \in gone.left
    /\ \A c \in Ids : Count(c, "roomMessageForward") = 0

\* C8: once the disconnect of c has been processed, c is a member of no
\* room and is absent from the registry, whatever it joined before.
C8_DisconnectedIsNowhere ==
    \A c \in closed :
       /\ c \notin sockets
       /\ c \notin DOMAIN sids
       /\ \A r \in DOMAIN rooms : c \notin rooms[r]

C8_Witness ==
    /\ lastEv.name = "disconnect"
    /\ lastEv.sender \in closed
    /\ \E r \in PlainRooms :
          /\ lastEv.sender \in Members(pre.rooms, r)
          /\ Members(rooms, r) # {}
          /\ lastEv.sender \notin Members(rooms, r)

\* a second joinRoom(r) from a connection that is already in r changes no
\* membership
RejoinChangesNothing ==
    (/\ Handled("joinRoom")
     /\ lastEv.sender \in Members(pre.rooms, lastEv.target))
        => rooms = pre.rooms

\* C9 (as stated): the membership of room r equals the set of
\* still-connected connections that sent at least one joinRoom(r), and a
\* second joinRoom(r) leaves every membership as it was.
C9_MembersAreJoiners ==
    /\ \A r \in Names :
          Members(rooms, r) = {c \in sockets : <<c, r>> \in joined}
    /\ RejoinChangesNothing

\* C9 (amended): the membership of room r equals the set of still-connected
\* connections that sent at least one joinRoom(r) together with the
\* connection whose id is r while it is connected, and a second joinRoom(r)
\* leaves every membership as it was.
C9_MembersAreJoinersAndOwner ==
    /\ \A r \in Names :
          Members(rooms, r) =
             {c \in sockets : <<c, r>> \in joined \/ c = r}
    /\ RejoinChangesNothing

C9_Witness ==
    /\ Handled("joinRoom")
    /\ lastEv.target \in PlainRooms
    /\ lastEv.sender \in Members(pre.rooms, lastEv.target)
    /\ Cardinality(Members(rooms, lastEv.target)) >= 2
    /\ rooms = pre.rooms

\* C10: for members A and B of one room, whichever of A's disconnect and
\* B's roomMessage is handled first, the dispatch raises no error and B
\* receives its own forward; A receives it only if the dispatch came first.
C10_DisconnectRaceIsHarmless ==
    (/\ Handled("roomMessage")
     /\ lastEv.sender \in Members(pre.rooms, lastEv.target)) =>
        /\ ~crashed
        /\ Count(lastEv.sender, "roomMessageForward") = 1
        /\ \A a \in closed : \A e \in OutEvents : Count(a, e) = 0
        /\ \A a \in Members(pre.rooms, lastEv.target) \ closed :
              Count(a, "roomMessageForward") = 1

C10_Witness ==
    /\ Handled("roomMessage")
    /\ lastEv.sender \in Members(pre.rooms, lastEv.target)
    /\ gone.id \in closed
    /\ gone.id # lastEv.sender
    /\ lastEv.target \in gone.left
    /\ Count(lastEv.sender, "roomMessageForward") = 1
    /\ Count(gone.id, "roomMessageForward") = 0

\* lastEv is an inbound event the handlers cannot make sense of
Malformed ==
    \/ lastEv.name \in {"sendMessage", "roomMessage"} /\ ~lastEv.present
    \/ lastEv.name = "unknownEvent"

\* C11: a malformed inbound event (sendMessage or roomMessage without a
\* payload, or an event name without handler) is dropped: no outbound event,
\* no unhandled error in the server, the sender stays connected, and the
\* registry and the rooms are as before.
C11_MalformedIsDropped ==
    Malformed =>
        /\ lastOut = <<>>
        /\ ~crashed
        /\ lastEv.sender \in sockets
        /\ sockets = pre.sockets
        /\ rooms = pre.rooms

\* C13: no outbound event of any kind is routed to a connection whose
\* disconnect has been processed, and no room keeps a member whose
\* connection is gone.
C13_NothingRoutedToClosed ==
    /\ \A i \in 1..Len(lastOut) :
          /\ lastOut[i].to \cap closed = {}
          /\ lastOut[i].to \subseteq sockets
    /\ \A r \in DOMAIN rooms : rooms[r] \subseteq sockets
    /\ DOMAIN sids = sockets

C13_Witness ==
    /\ Handled("sendMessage")
    /\ lastEv.target \in closed
    /\ lastEv.target = gone.id
    /\ Len(lastOut) = 3
    /\ lastOut[2].to = sockets
    /\ lastOut[3].to # {}
    /\ gone.id \notin lastOut[3].to

\* C14: for every connection the disconnect cleanup (leave all rooms, then
\* remove the registry entry) runs exactly once, whatever closed it, and a
\* duplicate close signal changes nothing.
C14_CleanupExactlyOnce ==
    /\ \A c \in Ids :
          cleanups[c] =
             (IF c \in closed THEN <<"leaveAll", "remove">> ELSE <<>>)
    /\ lastEv.name = "disconnect" =>
          /\ lastEv.message \in CloseReasons
          /\ lastEv.sender \in pre.sockets \ sockets
    /\ lastEv.name = "close" =>
          /\ sockets = pre.sockets
          /\ rooms = pre.rooms
          /\ lastOut = <<>>

C14_Witness ==
    /\ lastEv.name = "close"
    /\ lastEv.message = "transport error"
    /\ lastEv.sender = gone.id
    /\ "r1" \in gone.left
    /\ "r1" \in DOMAIN rooms
    /\ cleanups[lastEv.sender] = <<"leaveAll", "remove">>

RoomEvents == {"roomNotification", "roomMessageForward"}

\* C15: a connection receives a roomNotification or roomMessageForward for
\* room r only if it sent joinRoom(r) earlier and has not disconnected; a
\* connection that never sent joinRoom receives no room event, whatever room
\* names the others use (its own id included).
C15_RoomEventsOnlyToJoiners ==
    \A c \in Ids : \A e \in RoomEvents :
       Count(c, e) > 0 =>
          /\ c \in sockets
          /\ <<c, lastEv.target>> \in joined

\* the events a connection receives from the handling of lastEv, in order
Received(c) ==
    LET idx == {i \in 1..Len(lastOut) : c \in lastOut[i].to}
        Pick[k \in 0..Len(lastOut)] ==
            IF k = 0 THEN <<>>
            ELSE IF k \in idx THEN Append(Pick[k - 1], lastOut[k].event)
                 ELSE Pick[k - 1]
    IN  Pick[Len(lastOut)]

\* C17: one sendMessage produces its outbound events in the order self-echo,
\* broadcast, private; the sender sees selfMessage before broadcastMessage
\* and a recipient sees broadcastMessage before privateMessage.
C17_EchoBroadcastPrivateOrder ==
    Handled("sendMessage") =>
        /\ Len(lastOut) \in {2, 3}
        /\ lastOut[1].event = "selfMessage"
        /\ lastOut[2].event = "broadcastMessage"
        /\ Len(lastOut) = 3 => lastOut[3].event = "privateMessage"
        /\ Len(lastOut) = 3 <=> lastEv.target # Undefined
        /\ LET seen == Received(lastEv.sender)
           IN  /\ Len(seen) >= 2
               /\ seen[1] = "selfMessage"
               /\ seen[2] = "broadcastMessage"
        /\ \A c \in Ids :
              Count(c, "privateMessage") > 0 =>
                 LET seen == Received(c)
                 IN  /\ seen[Len(seen)] = "privateMessage"
                     /\ seen[Len(seen) - 1] = "broadcastMessage"

C17_Witness ==
    /\ Handled("sendMessage")
    /\ lastEv.target \in sockets \ {lastEv.sender}
    /\ Received(lastEv.sender) = <<"selfMessage", "broadcastMessage">>
    /\ Received(lastEv.target) = <<"broadcastMessage", "privateMessage">>

\* no room exists without members, and a room disappears exactly when the
\* disconnect of its last member is processed
NoEmptyRoomAndDeletedOnLastLeave ==
    /\ \A r \in DOMAIN rooms : rooms[r] # {}
    /\ DOMAIN pre.rooms \ DOMAIN rooms # {} =>
          /\ lastEv.name = "disconnect"
          /\ \A r \in DOMAIN pre.rooms \ DOMAIN rooms :
                pre.rooms[r] = {lastEv.sender}
    /\ lastEv.name = "disconnect" =>
          \A r \in DOMAIN pre.rooms :
             pre.rooms[r] = {lastEv.sender} => r \notin DOMAIN rooms

\* C19 (as stated): no room exists with an empty member set; a room comes
\* into existence only through a joinRoom event and is deleted when its last
\* member leaves through disconnect.
C19_RoomsOnlyFromJoinRoom ==
    /\ NoEmptyRoomAndDeletedOnLastLeave
    /\ DOMAIN rooms \ DOMAIN pre.rooms # {} =>
          /\ lastEv.name = "joinRoom"
          /\ DOMAIN rooms \ DOMAIN pre.rooms = {lastEv.target}

\* C19 (amended): no room exists with an empty member set; a room comes into
\* existence only through a joinRoom event or, for the room named by a
\* connection's id, through that connection's connect, and is deleted when
\* its last member leaves through disconnect.
C19_RoomsFromJoinRoomOrConnect ==
    /\ NoEmptyRoomAndDeletedOnLastLeave
    /\ DOMAIN rooms \ DOMAIN pre.rooms # {} =>
          \/ /\ lastEv.name = "joinRoom"
             /\ DOMAIN rooms \ DOMAIN pre.rooms = {lastEv.target}
          \/ /\ lastEv.name = "connection"
             /\ DOMAIN rooms \ DOMAIN pre.rooms = {lastEv.sender}

C19_Witness ==
    /\ lastEv.name = "disconnect"
    /\ "r1" \in DOMAIN pre.rooms
    /\ pre.rooms["r1"] = {lastEv.sender}
    /\ "r1" \notin DOMAIN rooms
    /\ sockets # {}

\* C20: handling sendMessage or roomMessage leaves the registry and every
\* membership unchanged; handling joinRoom(r) from A changes nothing but the
\* membership of A in r.
C20_DispatchKeepsNoState ==
    /\ lastEv.name \in {"sendMessage", "roomMessage"} =>
          /\ sockets = pre.sockets
          /\ rooms = pre.rooms
    /\ lastEv.name = "joinRoom" =>
          /\ sockets = pre.sockets
          /\ \A r \in Names :
                Members(rooms, r) =
                   (IF r = lastEv.target
                    THEN Members(pre.rooms, r) \cup {lastEv.sender}
                    ELSE Members(pre.rooms, r))
          /\ \A c \in sockets \ {lastEv.sender} :
                \A r \in Names :
                   c \in Members(rooms, r) <=> c \in Members(pre.rooms, r)

C20_Witness ==
    /\ lastEv.name = "joinRoom"
    /\ lastEv.target = "r1"
    /\ lastEv.sender \notin Members(pre.rooms, "r1")
    /\ Members(pre.rooms, "r1") # {}
    /\ \E r \in Ids \ {lastEv.sender} : lastEv.sender \in Members(rooms, r)

Attributed == {"broadcastMessage", "privateMessage", "roomMessageForward"}

\* C16: the sender id carried by every broadcastMessage, privateMessage and
\* roomMessageForward is the id of the connection that produced the inbound
\* event, whatever fields the payload contains.
C16_FromIsTheProducer ==
    \A i \in 1..Len(lastOut) :
       lastOut[i].event \in Attributed => lastOut[i].from = lastEv.sender

C16_Witness ==
    /\ Handled("roomMessage")
    /\ lastEv.from \in sockets \ {lastEv.sender}
    /\ Len(lastOut) = 1
    /\ lastEv.from \in lastOut[1].to
    /\ lastOut[1].from = lastEv.sender

\* the documents of the collection that carry the email of the last request
WithEmail == {i \in 1..Len(users) : users[i].email = resp.email}

Ord(text) == CHOOSE n \in 1..Len(SeqTexts) : SeqTexts[n] = text

\* C18: events of one connection are processed in the order produced, so
\* every target receives the outbound events of an earlier event of A before
\* those of a later event of A, under any interleaving with other senders.
C18_PerSenderFifo ==
    /\ \A t \in Ids : \A i, j \in 1..Len(inbox[t]) :
          (/\ i < j
           /\ inbox[t][i].event = "broadcastMessage"
           /\ inbox[t][j].event = "broadcastMessage"
           /\ inbox[t][i].from = inbox[t][j].from)
             => Ord(inbox[t][i].message) < Ord(inbox[t][j].message)
    /\ \A c \in Ids : \A i, j \in 1..Len(inq[c]) :
          i < j => Ord(inq[c][i].message) < Ord(inq[c][j].message)

C18_Witness ==
    \E t \in Ids : \E a \in Ids \ {t} :
       LET bc == SelectSeq(inbox[t], LAMBDA w : w.event = "broadcastMessage")
       IN  /\ Len(bc) = 3
           /\ bc[1].from = a /\ bc[1].message = "m1"
           /\ bc[2].from = t
           /\ bc[3].from = a /\ bc[3].message = "m2"

----------------------------------------------------------------------------
\* C23: sending to a room is not gated by membership. A roomMessage(r, text)
\* from a connection S that is not a member of r is forwarded exactly once to
\* every member of r, and S receives the roomMessageForward if and only if S
\* is a member of r.
C23_NonMemberMayPost ==
    Handled("roomMessage") =>
        /\ lastEv.sender \notin Members(pre.rooms, lastEv.target) =>
              /\ \A c \in Members(pre.rooms, lastEv.target) :
                    Count(c, "roomMessageForward") = 1
              /\ \A i \in 1..Len(lastOut) :
                    /\ lastOut[i].message = lastEv.message
                    /\ lastOut[i].from = lastEv.sender
        /\ Count(lastEv.sender, "roomMessageForward") >= 1
              <=> lastEv.sender \in Members(pre.rooms, lastEv.target)

C23_Witness ==
    /\ Handled("roomMessage")
    /\ lastEv.target \in PlainRooms
    /\ lastEv.sender \in sockets
    /\ lastEv.sender \notin Members(pre.rooms, lastEv.target)
    /\ Members(pre.rooms, lastEv.target) # {}
    /\ \A c \in Members(pre.rooms, lastEv.target) :
          Count(c, "roomMessageForward") = 1
    /\ Count(lastEv.sender, "roomMessageForward") = 0

\* the room names connection c is a member of in room map rms
RoomsOf(rms, c) == {r \in DOMAIN rms : c \in rms[r]}

\* C24: while a connection stays connected the set of rooms it belongs to
\* never shrinks: whatever was handled last, a connection that was connected
\* before and still is belongs to every room it belonged to before, and a
\* connection loses a membership only through its own disconnect, which
\* clears all of them.
C24_RoomSetNeverShrinks ==
    \A c \in pre.sockets :
       /\ c \in sockets => RoomsOf(pre.rooms, c) \subseteq RoomsOf(rooms, c)
       /\ ~(RoomsOf(pre.rooms, c) \subseteq RoomsOf(rooms, c)) =>
             /\ lastEv.name = "disconnect"
             /\ lastEv.sender = c
             /\ RoomsOf(rooms, c) = {}

C24_Witness ==
    /\ lastEv.name = "joinRoom"
    /\ lastEv.sender \in sockets
    /\ lastEv.target \in RoomsOf(pre.rooms, lastEv.sender)
    /\ Cardinality(RoomsOf(pre.rooms, lastEv.sender)) >= 2
    /\ RoomsOf(rooms, lastEv.sender) = RoomsOf(pre.rooms, lastEv.sender)

----------------------------------------------------------------------------
\* the write of an event to the connection closed last has failed: it closed
\* with "transport error" while events written to it had not reached it
WriteFailed ==
    /\ lastEv.name = "disconnect"
    /\ lastEv.message = "transport error"
    /\ inbox[lastEv.sender] # recv[lastEv.sender]

\* C21: fan-out is isolated per target. Whatever write has failed, every
\* event written to a connection that is still open has been received by it
\* or waits in its write buffer, no connection is ever sent anything but the
\* relay's own events, and the failure of a write closes the connection it
\* was for and no other: not the sender, not an unrelated connection.
C21_FanOutIsolated ==
    /\ \A t \in sockets : inbox[t] = recv[t] \o outq[t]
    /\ \A t \in Ids : \A i \in 1..Len(inbox[t]) :
          inbox[t][i].event \in OutEvents
    /\ WriteFailed =>
          /\ sockets = pre.sockets \ {lastEv.sender}
          /\ ~crashed

C21_Witness ==
    /\ WriteFailed
    /\ \E t \in sockets : \E i \in 1..Len(inbox[lastEv.sender]) :
          /\ inbox[lastEv.sender][i].event = "roomMessageForward"
          /\ i > Len(recv[lastEv.sender])
          /\ \E j \in 1..Len(recv[t]) : recv[t][j] = inbox[lastEv.sender][i]

\* the broadcastMessage of the k-th dispatched event is in sequence q
HasBroadcast(q, k) ==
    \E i \in 1..Len(q) :
       /\ q[i].event = "broadcastMessage"
       /\ q[i].message = SeqTexts[k]

\* C22: with a transport that is scheduled fairly, a broadcastMessage is
\* written to every connection registered when its sendMessage is handled,
\* and each of them that stays connected eventually receives it; the targets
\* receive it one by one, not at one instant.
C22_BroadcastEventuallyDelivered ==
    /\ [](Handled("sendMessage") =>
            \A t \in pre.sockets : \E k \in 1..MaxSend :
               /\ SeqTexts[k] = lastEv.message
               /\ HasBroadcast(inbox[t], k))
    /\ \A t \in Ids : \A k \in 1..MaxSend :
          (t \in sockets /\ HasBroadcast(outq[t], k))
             ~> (HasBroadcast(recv[t], k) \/ t \notin sockets \/ crashed)

C22_Witness ==
    \E t \in sockets : \E u \in sockets : \E k \in 1..MaxSend :
       /\ HasBroadcast(recv[t], k)
       /\ HasBroadcast(outq[u], k)
       /\ ~HasBroadcast(recv[u], k)

----------------------------------------------------------------------------
\* the _ids of the documents of collection us
IdsOf(us) == {us[i].id : i \in 1..Len(us)}

\* C25: DELETE /delete/:id reports success only when a document was deleted:
\* a success response means the document with that id was in the store and
\* is gone, and for an id that matches no user the response is a failure
\* (not found, for a well-formed id) and the store is unchanged.
C25_DeleteSuccessMeansDeleted ==
    resp.route = "delete" =>
        /\ resp.body = "success" =>
              /\ resp.id \in IdsOf(usersPre)
              /\ users = DeleteOne(usersPre, resp.id)
              /\ Len(users) = Len(usersPre) - 1
        /\ resp.id \notin IdsOf(usersPre) =>
              /\ resp.body = "failure"
              /\ users = usersPre
              /\ (resp.id \in Oids /\ ~resp.failed) => resp.status = 404

\* the documents at positions from..to of the collection, read off one by one
Slice(us, from, to) ==
    [i \in 1..(IF to >= from THEN to - from + 1 ELSE 0) |-> us[from + i - 1]]

\* the number of pages that hold the collection, two documents a page
LastPage == (Len(users) + 1) \div 2

\* C26: GET /pagination/:page with page size 2 skips (page - 1) * 2 documents
\* and returns at most 2 (page 1 skips 0, page 2 skips 2, page 3 skips 4);
\* over a fixed collection the pages 1..n are pairwise disjoint, hold at most
\* 2 documents each and together hold every document exactly once; a page
\* below 1 has a negative skip and is answered with the error, not documents.
C26_PagesPartitionTheCollection ==
    /\ SkipOf(1) = 0 /\ SkipOf(2) = 2 /\ SkipOf(3) = 4
    /\ resp.route = "pagination" =>
          /\ users = usersPre
          /\ (resp.page >= 1 /\ ~resp.failed) =>
                /\ resp.body = "users"
                /\ Len(resp.docs) <= 2
                /\ resp.docs =
                      Slice(users, 2 * (resp.page - 1) + 1,
                            IF 2 * resp.page < Len(users)
                            THEN 2 * resp.page ELSE Len(users))
          /\ resp.page < 1 =>
                /\ SkipOf(resp.page) < 0
                /\ resp.body = "err.message"
                /\ resp.docs = <<>>
    /\ \A p \in 1..LastPage :
          /\ Len(Aggregate(users, SkipOf(p), limit)) \in 1..2
          /\ \A q \in 1..LastPage :
                p # q => IdsOf(Aggregate(users, SkipOf(p), limit))
                           \cap IdsOf(Aggregate(users, SkipOf(q), limit)) = {}
    /\ \A i \in 1..Len(users) :
          Cardinality({<<p, k>> \in (1..LastPage) \X (1..2) :
                         /\ k <= Len(Aggregate(users, SkipOf(p), limit))
                         /\ Aggregate(users, SkipOf(p), limit)[k] = users[i]})
             = 1

C26_Witness ==
    /\ resp.route = "pagination"
    /\ resp.page = 3
    /\ ~resp.failed
    /\ Len(users) = 5
    /\ resp.docs = <<users[5]>>

\* C27: GET /csrf-token answers every request with a JSON body that holds a
\* CSRF token, the CSRF middleware having run on the request's path before
\* the handler calls req.csrfToken().
C27_CsrfTokenAlwaysAnswered ==
    resp.route = "csrf-token" =>
        /\ "csrfMiddleware" \in Ran(resp.path)
        /\ resp.status = 200
        /\ resp.body = "csrfToken"
====
